---- MODULE Spec2Model ----
(***************************************************************************)
(* PantryPal (src/app.py): a pantry list held in the Streamlit session,    *)
(* mirrored to pantry_data.csv.  The model covers normalize_items,         *)
(* load_data / save_data, the add form, the search / category / sort       *)
(* projection, and the Remove selected / Clear all / Save buttons.         *)
(*                                                                         *)
(* Text is a sequence of one-character strings, so that strip(), lower(),  *)
(* substring search, comparison, formatting and parsing are computed.      *)
(* Python values that may be of several types (what DataFrame.to_dict or   *)
(* a raw mapping holds) are records tagged with a "kind" field.            *)
(***************************************************************************)
EXTENDS Integers, Sequences, FiniteSets, TLC

VARIABLES
    items,          \* st.session_state.items
    file,           \* pantry_data.csv: [exists, rows]
    search_text,    \* value of the "Search by name" input in the last run
    cat_choice,     \* value of the "Filter by category" selectbox
    sort_choice,    \* value of the "Sort by" selectbox
    display_items,  \* the list the last script run rendered
    selected,       \* to_delete_indices of the last Remove selected click
    submitted,      \* what the add form submitted in the last run, if it did
    outcome,        \* what the last run did: [op, msg, n, unlink]
    raw,            \* argument of normalize_items (pure-function runs)
    clean,          \* its result
    today           \* date.today()

vars == <<items, file, search_text, cat_choice, sort_choice, display_items,
          selected, submitted, outcome, raw, clean, today>>

(***************************************************************************)
(* Bounds of the model.                                                    *)
(***************************************************************************)
MaxItems == 3
MaxSortLen == 3
MaxRawLen == 2

(***************************************************************************)
(* Characters and text                                                     *)
(***************************************************************************)
\* The printable ASCII characters, code points 32..126 in order (the grave
\* accent, 96, is spelled out: the lexer does not take it in a string).
Ascii ==
    << " ", "!", "\"", "#", "$", "%", "&", "'", "(", ")", "*", "+", ",", "-",
       ".", "/", "0", "1", "2", "3", "4", "5", "6", "7", "8", "9", ":", ";",
       "<", "=", ">", "?", "@", "A", "B", "C", "D", "E", "F", "G", "H", "I",
       "J", "K", "L", "M", "N", "O", "P", "Q", "R", "S", "T", "U", "V", "W",
       "X", "Y", "Z", "[", "\\", "]", "^", "_", "grave", "a", "b", "c", "d", "e",
       "f", "g", "h", "i", "j", "k", "l", "m", "n", "o", "p", "q", "r", "s",
       "t", "u", "v", "w", "x", "y", "z", "{", "|", "}", "~" >>

OrdTable ==
    [c \in {Ascii[i] : i \in 1..Len(Ascii)} |->
        31 + (CHOOSE i \in 1..Len(Ascii) : Ascii[i] = c)]

ord(c) == OrdTable[c]

chr(n) == Ascii[n - 31]

\* str.lower() on one character, then on a text
lower_char(c) == IF ord(c) >= 65 /\ ord(c) <= 90 THEN chr(ord(c) + 32) ELSE c

RECURSIVE lower(_)
lower(t) == IF t = <<>> THEN <<>> ELSE <<lower_char(Head(t))>> \o lower(Tail(t))

\* str.strip(): leading and trailing whitespace removed
RECURSIVE lstrip(_)
lstrip(t) == IF t # <<>> /\ Head(t) = " " THEN lstrip(Tail(t)) ELSE t

RECURSIVE rstrip(_)
rstrip(t) ==
    IF t # <<>> /\ t[Len(t)] = " " THEN rstrip(SubSeq(t, 1, Len(t) - 1)) ELSE t

strip(t) == rstrip(lstrip(t))

\* the substring test: needle in hay
contains(needle, hay) ==
    \E i \in 0..(Len(hay) - Len(needle)) :
        SubSeq(hay, i + 1, i + Len(needle)) = needle

\* a < b on str: lexicographic by code point
RECURSIVE text_lt(_, _)
text_lt(a, b) ==
    IF b = <<>> THEN FALSE
    ELSE IF a = <<>> THEN TRUE
    ELSE IF ord(Head(a)) # ord(Head(b)) THEN ord(Head(a)) < ord(Head(b))
    ELSE text_lt(Tail(a), Tail(b))

is_digit(c) == ord(c) >= 48 /\ ord(c) <= 57

all_digits(t) == t # <<>> /\ \A i \in 1..Len(t) : is_digit(t[i])

\* int("123") on a text of digits
RECURSIVE to_int(_)
to_int(t) ==
    IF t = <<>> THEN 0
    ELSE 10 * to_int(SubSeq(t, 1, Len(t) - 1)) + (ord(t[Len(t)]) - 48)

\* str(n) for n >= 0
RECURSIVE int_to_text(_)
int_to_text(n) ==
    IF n < 10 THEN <<chr(48 + n)>>
    ELSE int_to_text(n \div 10) \o <<chr(48 + (n % 10))>>

\* n in decimal, zero-padded to at least w characters
RECURSIVE zero_pad(_, _)
zero_pad(t, w) == IF Len(t) >= w THEN t ELSE zero_pad(<<"0">> \o t, w)

\* str.split(sep) for a one-character separator
RECURSIVE split(_, _)
split(t, sep) ==
    IF \A i \in 1..Len(t) : t[i] # sep THEN <<t>>
    ELSE LET k == CHOOSE i \in 1..Len(t) :
                      t[i] = sep /\ \A j \in 1..(i - 1) : t[j] # sep
         IN <<SubSeq(t, 1, k - 1)>> \o split(SubSeq(t, k + 1, Len(t)), sep)

(***************************************************************************)
(* Python values                                                           *)
(***************************************************************************)
NoneV == [kind |-> "None"]

\* float("nan"), what pandas holds for a missing cell
NaN == [kind |-> "nan"]

Str(t) == [kind |-> "str", text |-> t]

IntV(n) == [kind |-> "int", val |-> n]

\* datetime.date(y, m, d)
Date(y, m, d) == [kind |-> "date", y |-> y, m |-> m, d |-> d]

\* datetime.datetime(y, m, d, hh, mm, ss)
DateTime(y, m, d, hh, mm, ss) ==
    [kind |-> "datetime", y |-> y, m |-> m, d |-> d,
     hh |-> hh, mm |-> mm, ss |-> ss]

\* isinstance(v, str), isinstance(v, datetime), isinstance(v, date): a
\* datetime is a date as well
is_str(v) == v.kind = "str"

is_datetime(v) == v.kind = "datetime"

is_date(v) == v.kind \in {"date", "datetime"}

\* datetime.date(): the time of day is dropped
date_of(v) == Date(v.y, v.m, v.d)

date_min == Date(1, 1, 1)

date_max == Date(9999, 12, 31)

\* a < b on dates
date_lt(a, b) ==
    \/ a.y < b.y
    \/ a.y = b.y /\ a.m < b.m
    \/ a.y = b.y /\ a.m = b.m /\ a.d < b.d

is_leap(y) == (y % 4 = 0 /\ y % 100 # 0) \/ y % 400 = 0

days_in_month(y, m) ==
    IF m = 2 THEN (IF is_leap(y) THEN 29 ELSE 28)
    ELSE IF m \in {4, 6, 9, 11} THEN 30 ELSE 31

valid_date(y, m, d) ==
    /\ y >= 1 /\ y <= 9999
    /\ m >= 1 /\ m <= 12
    /\ d >= 1 /\ d <= days_in_month(y, m)

\* date.isoformat(): YYYY-MM-DD
isoformat(v) ==
    zero_pad(int_to_text(v.y), 4) \o <<"-">> \o zero_pad(int_to_text(v.m), 2)
        \o <<"-">> \o zero_pad(int_to_text(v.d), 2)

\* The result of a parse that raised
ParseError == [kind |-> "error"]

\* datetime.fromisoformat(t): YYYY-MM-DD, alone or followed by one separator
\* character and HH:MM or HH:MM:SS; anything else raises ValueError
iso_date_part_ok(t) ==
    /\ Len(t) >= 10
    /\ all_digits(SubSeq(t, 1, 4)) /\ t[5] = "-"
    /\ all_digits(SubSeq(t, 6, 7)) /\ t[8] = "-"
    /\ all_digits(SubSeq(t, 9, 10))
    /\ valid_date(to_int(SubSeq(t, 1, 4)), to_int(SubSeq(t, 6, 7)),
                  to_int(SubSeq(t, 9, 10)))

iso_time_part_ok(t) ==
    \/ Len(t) = 10
    \/ /\ Len(t) \in {16, 19}
       /\ all_digits(SubSeq(t, 12, 13)) /\ to_int(SubSeq(t, 12, 13)) <= 23
       /\ t[14] = ":"
       /\ all_digits(SubSeq(t, 15, 16)) /\ to_int(SubSeq(t, 15, 16)) <= 59
       /\ Len(t) = 19 =>
              /\ t[17] = ":"
              /\ all_digits(SubSeq(t, 18, 19))
              /\ to_int(SubSeq(t, 18, 19)) <= 59

fromisoformat(t) ==
    IF iso_date_part_ok(t) /\ iso_time_part_ok(t)
    THEN DateTime(to_int(SubSeq(t, 1, 4)), to_int(SubSeq(t, 6, 7)),
                  to_int(SubSeq(t, 9, 10)),
                  IF Len(t) >= 13 THEN to_int(SubSeq(t, 12, 13)) ELSE 0,
                  IF Len(t) >= 16 THEN to_int(SubSeq(t, 15, 16)) ELSE 0,
                  IF Len(t) >= 19 THEN to_int(SubSeq(t, 18, 19)) ELSE 0)
    ELSE ParseError

\* datetime.strptime(t, "%Y-%m-%d"): a four-digit year, then a month and a
\* day of one or two digits each
strptime_ymd(t) ==
    LET p == split(t, "-")
    IN IF /\ Len(p) = 3
          /\ Len(p[1]) = 4 /\ all_digits(p[1])
          /\ Len(p[2]) \in {1, 2} /\ all_digits(p[2])
          /\ Len(p[3]) \in {1, 2} /\ all_digits(p[3])
          /\ valid_date(to_int(p[1]), to_int(p[2]), to_int(p[3]))
       THEN DateTime(to_int(p[1]), to_int(p[2]), to_int(p[3]), 0, 0, 0)
       ELSE ParseError

\* str(v)
str(v) ==
    CASE v.kind = "str" -> v.text
      [] v.kind = "int" -> int_to_text(v.val)
      [] v.kind = "nan" -> <<"n", "a", "n">>
      [] v.kind = "None" -> <<"N", "o", "n", "e">>
      [] v.kind = "date" -> isoformat(v)

\* dict.get(key, default)
get(it, key, default) == IF key \in DOMAIN it THEN it[key] ELSE default

(***************************************************************************)
(* normalize_items                                                         *)
(***************************************************************************)
\* int(v) raises ValueError or TypeError
int_raises(v) ==
    CASE v.kind = "int" -> FALSE
      [] v.kind = "str" -> ~all_digits(strip(v.text))
      [] OTHER -> TRUE

int_of(v) == IF v.kind = "int" THEN v.val ELSE to_int(strip(v.text))

\* line 36: the quantity expression raises
quantity_raises(it) ==
    get(it, "quantity", NoneV) # Str(<<>>) /\ int_raises(get(it, "quantity", IntV(0)))

\* line 36
norm_quantity(it) ==
    IF get(it, "quantity", NoneV) # Str(<<>>)
    THEN int_of(get(it, "quantity", IntV(0)))
    ELSE 0

\* lines 38-48: the expiry of the clean record
norm_expiry(it, tdy) ==
    LET exp == get(it, "expiry", NoneV)
        exp1 == IF is_str(exp)
                THEN IF fromisoformat(exp.text) # ParseError
                     THEN date_of(fromisoformat(exp.text))
                     ELSE IF strptime_ymd(exp.text) # ParseError
                          THEN date_of(strptime_ymd(exp.text))
                          ELSE tdy
                ELSE exp
    IN IF is_datetime(exp1) THEN date_of(exp1) ELSE exp1

norm_item(it, tdy) ==
    [name |-> strip(str(get(it, "name", Str(<<>>)))),
     quantity |-> norm_quantity(it),
     category |-> strip(str(get(it, "category", Str(<<>>)))),
     expiry |-> norm_expiry(it, tdy)]

normalize_raises(its) == \E i \in 1..Len(its) : quantity_raises(its[i])

normalize_items(its, tdy) == [i \in 1..Len(its) |-> norm_item(its[i], tdy)]

(***************************************************************************)
(* pantry_data.csv.  The file is a sequence of rows of four text cells     *)
(* (the header row and the quoting of commas are pandas' own and are left  *)
(* out); what pandas makes of each cell when it reads it back is modelled. *)
(***************************************************************************)
Absent == [exists |-> FALSE, rows |-> <<>>]

\* The cells pandas.read_csv takes as missing (its default na_values)
na_values ==
    { <<>>,
      <<"#", "N", "/", "A">>,
      <<"#", "N", "/", "A", " ", "N", "/", "A">>,
      <<"#", "N", "A">>,
      <<"-", "1", ".", "#", "I", "N", "D">>,
      <<"-", "1", ".", "#", "Q", "N", "A", "N">>,
      <<"-", "N", "a", "N">>,
      <<"-", "n", "a", "n">>,
      <<"1", ".", "#", "I", "N", "D">>,
      <<"1", ".", "#", "Q", "N", "A", "N">>,
      <<"<", "N", "A", ">">>,
      <<"N", "/", "A">>,
      <<"N", "A">>,
      <<"N", "U", "L", "L">>,
      <<"N", "a", "N">>,
      <<"N", "o", "n", "e">>,
      <<"n", "/", "a">>,
      <<"n", "a", "n">>,
      <<"n", "u", "l", "l">> }

\* pandas' missing timestamp
NaT == [kind |-> "NaT"]

\* DataFrame.to_csv: the text of one cell
write_text_cell(t) == t

write_expiry_cell(v) == IF is_date(v) THEN isoformat(date_of(v)) ELSE <<>>

\* save_data(items): the whole file is rewritten
save_data(its) ==
    [exists |-> TRUE,
     rows |-> [i \in 1..Len(its) |->
                  [name |-> write_text_cell(its[i].name),
                   quantity |-> int_to_text(its[i].quantity),
                   category |-> write_text_cell(its[i].category),
                   expiry |-> write_expiry_cell(its[i].expiry)]]]

\* pandas.read_csv: the value of a cell of a text column.  A cell that is one
\* of na_values is missing; any other text is read back as written (the
\* names and categories of the runs below are no numerals or booleans, which
\* pandas would read as numbers or bools)
read_text_cell(t) == IF t \in na_values THEN NaN ELSE Str(t)

read_quantity_cell(t) ==
    IF t \in na_values THEN NaN
    ELSE IF all_digits(t) THEN IntV(to_int(t)) ELSE Str(t)

\* parse_dates=["expiry"], then pd.to_datetime(...).dt.date
read_expiry_cell(t) ==
    IF t \in na_values THEN NaT
    ELSE IF fromisoformat(t) # ParseError THEN date_of(fromisoformat(t))
    ELSE ParseError

\* load_data(): [] when the file is absent, and [] when reading it raises (a
\* file with no columns, an expiry cell that is no date)
load_data(f) ==
    IF ~f.exists THEN <<>>
    ELSE IF f.rows = <<>> THEN <<>>
    ELSE IF \E i \in 1..Len(f.rows) : read_expiry_cell(f.rows[i].expiry) = ParseError
    THEN <<>>
    ELSE [i \in 1..Len(f.rows) |->
             [name |-> read_text_cell(f.rows[i].name),
              quantity |-> read_quantity_cell(f.rows[i].quantity),
              category |-> read_text_cell(f.rows[i].category),
              expiry |-> read_expiry_cell(f.rows[i].expiry)]]

(***************************************************************************)
(* The display projection: search, category filter, sort                   *)
(***************************************************************************)
All == <<"A", "l", "l">>

SortModes ==
    {"Expiry (soonest)", "Expiry (latest)", "Name A-Z", "Name Z-A",
     "Quantity descending"}

\* line 88: the categories offered by the selectbox, besides "All"
all_categories(its) ==
    {strip(its[i].category) : i \in {j \in 1..Len(its) : strip(its[j].category) # <<>>}}

\* line 94-95
matches_search(it, s) == s = <<>> \/ contains(lower(s), lower(it.name))

\* line 96-97
matches_category(it, c) ==
    c = <<>> \/ c = All \/ lower(it.category) = lower(c)

filter_items(its, s, c) ==
    LET keep(it) == matches_search(it, s) /\ matches_category(it, c)
    IN SelectSeq(its, keep)

\* key(a) < key(b) for the key function of a sort mode
key_lt(mode, a, b) ==
    CASE mode = "Expiry (soonest)" ->
           LET ka == IF a.expiry = NoneV THEN date_max ELSE a.expiry
               kb == IF b.expiry = NoneV THEN date_max ELSE b.expiry
           IN \/ a.expiry # NoneV /\ b.expiry = NoneV
              \/ (a.expiry = NoneV) = (b.expiry = NoneV) /\ date_lt(ka, kb)
      [] mode = "Expiry (latest)" ->
           LET ka == IF a.expiry = NoneV THEN date_min ELSE a.expiry
               kb == IF b.expiry = NoneV THEN date_min ELSE b.expiry
           IN \/ a.expiry # NoneV /\ b.expiry = NoneV
              \/ (a.expiry = NoneV) = (b.expiry = NoneV) /\ date_lt(ka, kb)
      [] mode \in {"Name A-Z", "Name Z-A"} ->
           text_lt(lower(a.name), lower(b.name))
      [] mode = "Quantity descending" -> a.quantity < b.quantity

\* One step of the stable sort: x goes in front of the first element that
\* must follow it, and behind everything else (so behind its equals)
sorted_insert(out, x, mode, reverse) ==
    LET follows(y) == IF reverse THEN key_lt(mode, y, x) ELSE key_lt(mode, x, y)
        after == {j \in 1..Len(out) : follows(out[j])}
    IN IF after = {} THEN Append(out, x)
       ELSE LET k == CHOOSE j \in after : \A l \in after : j <= l
            IN SubSeq(out, 1, k - 1) \o <<x>> \o SubSeq(out, k, Len(out))

\* sorted(items, key=..., reverse=...): stable in both directions
RECURSIVE sorted(_, _, _)
sorted(its, mode, reverse) ==
    IF its = <<>> THEN <<>>
    ELSE sorted_insert(sorted(SubSeq(its, 1, Len(its) - 1), mode, reverse),
                       its[Len(its)], mode, reverse)

\* Faulty variant of lines 104, 108, 110: the ascending order turned round,
\* which reverses ties
sort_items_reversing(its, mode) ==
    LET asc == sorted(its, mode, FALSE)
    IN IF mode \in {"Expiry (latest)", "Name Z-A", "Quantity descending"}
       THEN [i \in 1..Len(asc) |-> asc[Len(asc) + 1 - i]]
       ELSE asc

\* lines 100-111
sort_items(its, mode) ==
    CASE mode = "Expiry (soonest)" -> sorted(its, mode, FALSE)
      [] mode = "Expiry (latest)" -> sorted(its, mode, TRUE)
      [] mode = "Name A-Z" -> sorted(its, mode, FALSE)
      [] mode = "Name Z-A" -> sorted(its, mode, TRUE)
      [] mode = "Quantity descending" -> sorted(its, mode, TRUE)
      [] OTHER -> its

\* lines 93-113
view(its, s, c, m) == sort_items(filter_items(its, s, c), m)

(***************************************************************************)
(* Inputs of the runs                                                      *)
(***************************************************************************)
Milk == <<"M", "i", "l", "k">>

milk == <<"m", "i", "l", "k">>

Milk_padded == <<" ", "M", "i", "l", "k", " ">>

Oil == <<"O", "i", "l">>

Dairy == <<"D", "a", "i", "r", "y">>

Dairy_padded == <<" ", "D", "a", "i", "r", "y">>

Jan1 == Date(2025, 1, 1)

Jun1 == Date(2024, 6, 1)

\* What the add form can submit: name, quantity >= 1, category, expiry date
AddRequests ==
    { [name |-> Milk_padded, quantity |-> 1, category |-> Dairy_padded,
       expiry |-> Jan1],
      [name |-> Oil, quantity |-> 2, category |-> <<>>, expiry |-> Jun1],
      [name |-> <<" ", " ">>, quantity |-> 1, category |-> Dairy, expiry |-> Jan1],
      [name |-> <<>>, quantity |-> 2, category |-> <<>>, expiry |-> Jun1] }

\* What can be typed into "Search by name"
SearchTexts == { <<>>, <<"M", "I">> }

\* The options of the category selectbox (line 89)
category_options(its) == {All} \cup all_categories(its)

DefaultSort == "Expiry (soonest)"

(***************************************************************************)
(* The session: one action per script run                                  *)
(***************************************************************************)
Result(op, msg, n, unlink) == [op |-> op, msg |-> msg, n |-> n, unlink |-> unlink]

\* A selectbox without a key is a new widget, back on its first option,
\* whenever its list of options changes
category_after(old_its, new_its, c) ==
    IF category_options(new_its) = category_options(old_its) THEN c ELSE All

\* lines 72-77: the record the add form appends
new_item(req) ==
    [name |-> strip(req.name), quantity |-> req.quantity,
     category |-> strip(req.category), expiry |-> req.expiry]

\* Faulty variant of line 69: the name is tested without strip()
add_rejected_unstripped(req) == req.name = <<>>

\* line 69: "if not name.strip()"
add_rejected(req) == strip(req.name) = <<>>

\* Faulty variant of line 156: only the first matching record is removed
remove_first_matching(its, sel) ==
    LET hit == {i \in 1..Len(its) : \E k \in 1..Len(sel) : its[i] = sel[k]}
        first == {i \in hit : \A j \in hit : i <= j}
    IN [k \in 1..(Len(its) - Cardinality(first)) |->
           IF \E i \in first : i <= k THEN its[k + 1] ELSE its[k]]

\* dict equality: all four fields equal
record_eq(a, b) == a = b

\* line 156: the records that are "not in to_delete_indices" stay
remove_matching(its, sel) ==
    LET stays(it) == \A k \in 1..Len(sel) : ~record_eq(it, sel[k])
    IN SelectSeq(its, stays)

\* The k-th smallest of the ticked row numbers
nth_ticked(rows, k) ==
    CHOOSE i \in rows : Cardinality({j \in rows : j < i}) = k - 1

\* Faulty variant of line 146: the row number indexes the session's list
ticked_items_by_session_index(shown, its, rows) ==
    [k \in 1..Cardinality(rows) |-> its[nth_ticked(rows, k)]]

\* lines 131-146: the displayed records whose "Delete" box is ticked, in
\* display order
ticked_items(shown, its, rows) ==
    [k \in 1..Cardinality(rows) |-> shown[nth_ticked(rows, k)]]

\* Faulty variant of lines 164-168: the file is never deleted
file_kept_after_clear(f, unlink_ok) == f

\* lines 164-168: the file after Clear all; unlink() is tried only on a file
\* that exists, and its failure is swallowed
file_after_clear(f, unlink_ok) == IF f.exists /\ unlink_ok THEN Absent ELSE f

\* Faulty variant of lines 93-113: the session's list itself is sorted
items_after_projection_in_place(its, s, c, m) == sort_items(its, m)

\* lines 93-113 work on a copy (line 93), on new lists (95, 97) and on the
\* list sorted() returns: the session's list is what it was
items_after_projection(its, s, c, m) == its

Today == Date(2026, 11, 2)

NoRequest == [kind |-> "none"]

NoPure == /\ raw = <<>> /\ clean = <<>> /\ today = Today

StoreInit ==
    /\ items = normalize_items(load_data(Absent), Today)
    /\ file = Absent
    /\ search_text = <<>>
    /\ cat_choice = All
    /\ sort_choice = DefaultSort
    /\ display_items = <<>>
    /\ selected = <<>>
    /\ submitted = NoRequest
    /\ outcome = Result("start", "info", 0, "none")
    /\ NoPure

\* lines 52-54, then the first run's projection: a new session on the file
NewSession ==
    /\ ~normalize_raises(load_data(file))
    /\ items' = normalize_items(load_data(file), today)
    /\ search_text' = <<>>
    /\ cat_choice' = All
    /\ sort_choice' = DefaultSort
    /\ display_items' = view(items', <<>>, All, DefaultSort)
    /\ selected' = <<>>
    /\ submitted' = NoRequest
    /\ outcome' = Result("start", "info", 0, "none")
    /\ UNCHANGED <<file, raw, clean, today>>

\* lines 68-80: "Add item" submitted
AddItem(req) ==
    /\ ~add_rejected(req) => Len(items) < MaxItems
    /\ IF add_rejected(req)
       THEN /\ outcome' = Result("add", "warning", 0, "none")
            /\ UNCHANGED <<items, file>>
       ELSE /\ items' = Append(items, new_item(req))
            /\ file' = save_data(items')
            /\ outcome' = Result("add", "success", 0, "none")
    /\ cat_choice' = category_after(items, items', cat_choice)
    /\ display_items' = view(items', search_text, cat_choice', sort_choice)
    /\ selected' = <<>>
    /\ submitted' = req
    /\ UNCHANGED <<search_text, sort_choice, raw, clean, today>>

\* A run started by a change of one control: lines 84-113 only
Project(s, c, m) ==
    /\ items' = items_after_projection(items, s, c, m)
    /\ search_text' = s
    /\ cat_choice' = c
    /\ sort_choice' = m
    /\ display_items' = view(items, s, c, m)
    /\ selected' = <<>>
    /\ submitted' = NoRequest
    /\ outcome' = Result("view", "info", 0, "none")
    /\ UNCHANGED <<file, raw, clean, today>>

SetSearch(s) == Project(s, cat_choice, sort_choice)

SetCategory(c) == c \in category_options(items) /\ Project(search_text, c, sort_choice)

SetSort(m) == Project(search_text, cat_choice, m)

\* lines 131-146 and 150-160: rows ticked, then "Remove selected"
RemoveSelected(ticked) ==
    /\ display_items # <<>>
    /\ LET shown == view(items, search_text, cat_choice, sort_choice)
           to_delete_indices == ticked_items(shown, items, ticked)
       IN /\ ticked \subseteq 1..Len(shown)
          /\ selected' = to_delete_indices
          /\ IF to_delete_indices = <<>>
             THEN /\ outcome' = Result("remove", "warning", 0, "none")
                  /\ UNCHANGED <<items, file>>
             ELSE /\ items' = remove_matching(items, to_delete_indices)
                  /\ file' = save_data(items')
                  /\ outcome' = Result("remove", "success",
                                       Len(items) - Len(items'), "none")
    /\ cat_choice' = category_after(items, items', cat_choice)
    /\ display_items' = view(items', search_text, cat_choice', sort_choice)
    /\ submitted' = NoRequest
    /\ UNCHANGED <<search_text, sort_choice, raw, clean, today>>

\* lines 162-170: "Clear all items"
ClearAll(unlink_ok) ==
    /\ display_items # <<>>
    /\ items' = <<>>
    /\ file' = file_after_clear(file, unlink_ok)
    /\ outcome' = Result("clear", "success", 0,
                         IF ~file.exists THEN "skipped"
                         ELSE IF unlink_ok THEN "deleted" ELSE "failed")
    /\ cat_choice' = category_after(items, items', cat_choice)
    /\ display_items' = view(items', search_text, cat_choice', sort_choice)
    /\ selected' = <<>>
    /\ submitted' = NoRequest
    /\ UNCHANGED <<search_text, sort_choice, raw, clean, today>>

\* lines 172-174: "Save to server"
ForceSave ==
    /\ display_items # <<>>
    /\ file' = save_data(items)
    /\ outcome' = Result("save", "success", 0, "none")
    /\ selected' = <<>>
    /\ submitted' = NoRequest
    /\ UNCHANGED <<items, search_text, cat_choice, sort_choice, display_items,
                   raw, clean, today>>

StoreNext ==
    \/ NewSession
    \/ \E req \in AddRequests : AddItem(req)
    \/ \E s \in SearchTexts : SetSearch(s)
    \/ \E c \in category_options(items) : SetCategory(c)
    \/ \E m \in SortModes : SetSort(m)
    \/ \E ticked \in SUBSET (1..MaxItems) : RemoveSelected(ticked)
    \/ \E unlink_ok \in BOOLEAN : ClearAll(unlink_ok)
    \/ ForceSave

Spec == StoreInit /\ [][StoreNext]_vars

(***************************************************************************)
(* sort_items as a pure function: any list, records without an expiry      *)
(* included                                                                *)
(***************************************************************************)
sort_record(n, q, e) == [name |-> n, quantity |-> q, category |-> <<>>, expiry |-> e]

SortUniverse ==
    { sort_record(Milk, 1, Jan1), sort_record(milk, 2, Jan1),
      sort_record(Oil, 1, Jun1), sort_record(Oil, 2, NoneV),
      sort_record(Milk, 2, NoneV), sort_record(milk, 1, Jun1) }

SeqsUpTo(S, n) == UNION {[1..k -> S] : k \in 0..n}

SortInit ==
    /\ items \in SeqsUpTo(SortUniverse, MaxSortLen)
    /\ file = Absent
    /\ search_text = <<>>
    /\ cat_choice = All
    /\ sort_choice = DefaultSort
    /\ display_items = <<>>
    /\ selected = <<>>
    /\ submitted = NoRequest
    /\ outcome = Result("start", "info", 0, "none")
    /\ NoPure

\* line 113 on the whole list
SortStep(mode) ==
    /\ sort_choice' = mode
    /\ display_items' = sort_items(items, mode)
    /\ outcome' = Result("sort", "info", 0, "none")
    /\ UNCHANGED <<items, file, search_text, cat_choice, selected, submitted,
                   raw, clean, today>>

SortNext == \E mode \in SortModes : SortStep(mode)

SpecSort == SortInit /\ [][SortNext]_vars

(***************************************************************************)
(* normalize_items as a pure function of loosely typed mappings            *)
(***************************************************************************)
Missing == [kind |-> "missing"]

\* A raw mapping: the quantity and expiry keys are left out when Missing
raw_item(q, e) ==
    [k \in {"name", "category"} \cup {x \in {"quantity"} : q # Missing}
                                \cup {x \in {"expiry"} : e # Missing} |->
        CASE k = "name" -> Str(Milk_padded)
          [] k = "category" -> Str(Dairy)
          [] k = "quantity" -> q
          [] k = "expiry" -> e]

RawQuantities == {Missing, IntV(2), Str(<<"3">>), Str(<<>>), Str(<<"x">>)}

RawExpiries ==
    { Missing, NoneV, Jan1, DateTime(2025, 1, 1, 10, 30, 0),
      Str(<<"2", "0", "2", "5", "-", "0", "1", "-", "0", "1">>),
      Str(<<"2", "0", "2", "5", "-", "0", "1", "-", "0", "1", "T",
            "1", "0", ":", "3", "0", ":", "0", "0">>),
      Str(<<"2", "0", "2", "5", "-", "1", "-", "5">>),
      Str(<<"2", "0", "2", "5", "-", "0", "2", "-", "3", "0">>),
      Str(<<"s", "o", "o", "n">>),
      Str(<<>>) }

RawUniverse == {raw_item(q, e) : q \in RawQuantities, e \in RawExpiries}

NormInit ==
    /\ raw \in SeqsUpTo(RawUniverse, MaxRawLen)
    /\ clean = <<>>
    /\ today = Today
    /\ items = <<>>
    /\ file = Absent
    /\ search_text = <<>>
    /\ cat_choice = All
    /\ sort_choice = DefaultSort
    /\ display_items = <<>>
    /\ selected = <<>>
    /\ submitted = NoRequest
    /\ outcome = Result("start", "info", 0, "none")

\* normalize_items(raw) returns
Normalize ==
    /\ ~normalize_raises(raw)
    /\ clean' = normalize_items(raw, today)
    /\ outcome' = Result("normalize", "success", 0, "none")
    /\ UNCHANGED <<items, file, search_text, cat_choice, sort_choice,
                   display_items, selected, submitted, raw, today>>

\* normalize_items(raw) raises on a quantity that is no number
NormalizeFails ==
    /\ normalize_raises(raw)
    /\ outcome' = Result("normalize", "error", 0, "none")
    /\ UNCHANGED <<items, file, search_text, cat_choice, sort_choice,
                   display_items, selected, submitted, raw, clean, today>>

NormNext == Normalize \/ NormalizeFails

SpecNorm == NormInit /\ [][NormNext]_vars

(***************************************************************************)
(* The claims                                                              *)
(***************************************************************************)
\* What a fresh session would hold: load_data() and normalize_items, as at
\* session start
reloaded(f) == normalize_items(load_data(f), today)

mutated_by_last_run ==
    \/ outcome.op \in {"add", "remove"} /\ outcome.msg = "success"
    \/ outcome.op \in {"clear", "save"}

\* C1: after every add, remove, clear or save, the records read back from
\* pantry_data.csv are exactly the records of the in-memory list.
C1_WriteThrough == mutated_by_last_run => reloaded(file) = items

\* C2: in both expiry modes, sort_items places every record without an
\* expiry after every record that has one.
C2_MissingExpiryLast ==
    (outcome.op = "sort" /\ sort_choice \in {"Expiry (soonest)", "Expiry (latest)"})
        => \A i, j \in 1..Len(display_items) :
               (display_items[i].expiry = NoneV /\ display_items[j].expiry # NoneV)
                   => j < i

\* C3: for a non-empty list of valid records, save_data followed by load_data
\* and normalize_items gives back the same records.
C3_RoundTrip == items # <<>> => reloaded(save_data(items)) = items

\* C4: the expiry of every record normalize_items returns is a calendar date,
\* and it is today when the input had no expiry at all.
C4_ExpiryAlwaysDate ==
    (outcome.op = "normalize" /\ outcome.msg = "success")
        => \A i \in 1..Len(clean) :
               /\ clean[i].expiry.kind = "date"
               /\ "expiry" \notin DOMAIN raw[i] => clean[i].expiry = today

\* C5: an add request whose name is empty or only whitespace yields a warning
\* and leaves the in-memory list and the file as they were.
C5_BlankNameRejected ==
    [][(outcome'.op = "add" /\ \A i \in 1..Len(submitted'.name) :
                                   submitted'.name[i] = " ")
          => /\ outcome'.msg = "warning"
             /\ items' = items
             /\ file' = file]_vars

C5_Witness ==
    /\ outcome.op = "add"
    /\ submitted.name = <<" ", " ">>
    /\ outcome.msg = "warning"
    /\ items # <<>>

C7_ClearLeavesNothing ==
    outcome.op = "clear"
        => /\ items = <<>>
           /\ ~file.exists \/ file.rows = <<>>
           /\ load_data(file) = <<>>

\* C7 amended: after Clear all the in-memory list is empty; unless deleting
\* the file failed, the file is absent and a fresh session loads nothing.
C7_ClearUnlessUnlinkFailed ==
    outcome.op = "clear"
        => /\ items = <<>>
           /\ outcome.unlink # "failed"
                  => /\ ~file.exists
                     /\ load_data(file) = <<>>

C7_Witness ==
    /\ outcome.op = "clear"
    /\ outcome.unlink = "deleted"
    /\ ~file.exists
    /\ items = <<>>

\* C8: a projection run leaves the in-memory list and the file unchanged, and
\* computing the projection again on the store it left gives what it showed.
C8_ProjectionLeavesStore ==
    [][outcome'.op = "view"
          => /\ items' = items
             /\ file' = file
             /\ display_items' =
                    view(items', search_text', cat_choice', sort_choice')]_vars

C8_Witness ==
    /\ outcome.op = "view"
    /\ Len(items) >= 2
    /\ display_items # <<>>
    /\ display_items # items

\* Two records have equal sort keys in a mode
same_key(mode, a, b) ==
    CASE mode \in {"Expiry (soonest)", "Expiry (latest)"} -> a.expiry = b.expiry
      [] mode \in {"Name A-Z", "Name Z-A"} -> lower(a.name) = lower(b.name)
      [] mode = "Quantity descending" -> a.quantity = b.quantity

\* C9: in every sort mode, records with equal sort keys come out in the
\* relative order they had in the input.
C9_SortStable ==
    outcome.op = "sort"
        => \A r \in SortUniverse :
               LET tied(it) == same_key(sort_choice, it, r)
               IN SelectSeq(display_items, tied) = SelectSeq(items, tied)

C9_Witness ==
    /\ outcome.op = "sort"
    /\ sort_choice \in {"Expiry (latest)", "Name Z-A", "Quantity descending"}
    /\ display_items # items
    /\ \E i, j \in 1..Len(display_items) :
           /\ i < j
           /\ display_items[i] # display_items[j]
           /\ same_key(sort_choice, display_items[i], display_items[j])

\* C10: Remove selected removes no record the current filters hide: the
\* records failing the search text or the category filter are all still
\* there, in order.
C10_HiddenRecordsStay ==
    [][outcome'.op = "remove"
          => LET hidden(it) ==
                     ~(matches_search(it, search_text)
                         /\ matches_category(it, cat_choice))
             IN SelectSeq(items', hidden) = SelectSeq(items, hidden)]_vars

C10_Witness ==
    /\ outcome.op = "remove"
    /\ outcome.n > 0
    /\ search_text = <<"M", "I">>
    /\ \E i \in 1..Len(items) : ~matches_search(items[i], search_text)

====
